---- MODULE Spec2Model ----
(***************************************************************************)
(* A model of the collectors crate's bit stream (src/src/bits.rs): the     *)
(* struct Bits { bits: String, delimiter: char, endianness }, its          *)
(* constructors from_<T>_big_endian / from_<T>_little_endian, the peekers  *)
(* peek_next_data_as_<T>[_reversed], the consumers                         *)
(* consume_next_data_as_<T>[_reversed] and the private helpers             *)
(* get_next_n_bits, get_next_n_bits_as_string and move_n_bits, with        *)
(* the fixed-length forms peek_next_<signed|unsigned>_<W>_bits and         *)
(* consume_next_<signed|unsigned>_<W>_bits, as_vec_bool,                   *)
(* transform_as_vec_bool and to_string; and of its counter                 *)
(* (src/src/counter.rs): Counter<T> { state: BTreeMap<T, u128> } with new, *)
(* from_iter, update_from_value, update_from_iter, index, len, iter,       *)
(* into_iter and eq.                                                       *)
(*                                                                         *)
(* A String is a sequence of one-character strings "0", "1" and "|".       *)
(* An integer type is named by its Rust name ("u8", "i16", "usize", ...).  *)
(* A call either returns Ok(value), returns Err(kind) or panics (a failed  *)
(* assert!, an unwrap of None, a slice index out of range).                *)
(***************************************************************************)
EXTENDS Integers, Sequences, FiniteSets, TLC

(***************************************************************************)
(* Bounds of the explored inputs.                                          *)
(***************************************************************************)
\* longest array handed to from_u8_big_endian
MaxElems == 4
\* longest array handed to any other constructor
MaxElemsOther == 2
\* the keys handed to a Counter are 1..NumKeys
NumKeys == 3
\* most items handed to one Counter in all
MaxItems == 5
\* most items of one iterator handed to update_from_iter
MaxIterLen == 2

(***************************************************************************)
(* The integer types.                                                      *)
(***************************************************************************)
\* usize / isize on the build target: #[cfg(target_pointer_width = "64")]
PointerWidth == 64

IntTypes ==
  {"u8", "u16", "u32", "u64", "u128", "usize",
   "i8", "i16", "i32", "i64", "i128", "isize"}

Signed(t) == t \in {"i8", "i16", "i32", "i64", "i128", "isize"}

\* size_of::<T>() * 8, the width the constructors format with ({:08b}, ...)
Width(t) ==
  CASE t \in {"u8", "i8"}       -> 8
    [] t \in {"u16", "i16"}     -> 16
    [] t \in {"u32", "i32"}     -> 32
    [] t \in {"u64", "i64"}     -> 64
    [] t \in {"u128", "i128"}   -> 128
    [] t \in {"usize", "isize"} -> PointerWidth

\* the limit of the assert!(size_to_read <= ..) that opens peek_next_data_as_<T>
AssertWidth(t) ==
  CASE t \in {"u8", "i8"}       -> 8
    [] t \in {"u16", "i16"}     -> 16
    [] t \in {"u32", "i32"}     -> 32
    [] t \in {"u64", "i64"}     -> 64
    [] t \in {"u128", "i128"}   -> 128
    [] t \in {"usize", "isize"} -> 128

\* T::MAX = 2^ValueBits(T) - 1
ValueBits(t) == IF Signed(t) THEN Width(t) - 1 ELSE Width(t)

(***************************************************************************)
(* Strings.                                                                *)
(***************************************************************************)
\* chars().rev().collect::<String>()
Reverse(s) == [i \in 1..Len(s) |-> s[Len(s) + 1 - i]]

\* format!("{:b}", v) of a value v >= 0: the binary numeral without padding
RECURSIVE NatBits(_)
NatBits(v) ==
  IF v < 2 THEN <<IF v = 1 THEN "1" ELSE "0">>
  ELSE Append(NatBits(v \div 2), IF v % 2 = 1 THEN "1" ELSE "0")

\* left padding with '0' up to w characters (the 0w of {:0wb})
ZeroPad(s, w) ==
  IF Len(s) >= w THEN s ELSE [i \in 1..(w - Len(s)) |-> "0"] \o s

\* every digit flipped
FlipBits(s) == [i \in 1..Len(s) |-> IF s[i] = "1" THEN "0" ELSE "1"]

\* (mutant of FormatBinary: a negative value printed as its magnitude)
FormatBinary_SignMagnitude(v, w) ==
  ZeroPad(NatBits(IF v >= 0 THEN v ELSE -v), w)

\* format!("{:0wb}", v) for a value of a type of w bits: a negative value is
\* printed as its two's complement, the complement of the w bits of -v - 1
FormatBinary(v, w) ==
  IF v >= 0 THEN ZeroPad(NatBits(v), w)
  ELSE FlipBits(ZeroPad(NatBits(-v - 1), w))

\* (mutant of Join: the separator follows every string, the last one too)
RECURSIVE Join_Trailing(_, _)
Join_Trailing(strs, d) ==
  IF strs = <<>> THEN <<>>
  ELSE strs[1] \o <<d>> \o Join_Trailing(Tail(strs), d)

\* .collect::<Vec<String>>().join("|")
RECURSIVE Join(_, _)
Join(strs, d) ==
  IF strs = <<>> THEN <<>>
  ELSE IF Len(strs) = 1 THEN strs[1]
  ELSE strs[1] \o <<d>> \o Join(Tail(strs), d)

(***************************************************************************)
(* Constructors: Bits { bits, delimiter, endianness }.                     *)
(***************************************************************************)
\* (mutant of from_big_endian: the stream is tagged LittleEndian)
from_big_endian_TaggedLittle(t, data) ==
  [bits       |-> Join([i \in 1..Len(data) |-> FormatBinary(data[i], Width(t))], "|"),
   delimiter  |-> "|",
   endianness |-> "LittleEndian"]

from_big_endian(t, data) ==
  [bits       |-> Join([i \in 1..Len(data) |-> FormatBinary(data[i], Width(t))], "|"),
   delimiter  |-> "|",
   endianness |-> "BigEndian"]

\* (mutant of from_little_endian: the characters of an element are not
\* reversed)
from_little_endian_NoReverse(t, data) ==
  [bits       |-> Join([i \in 1..Len(data) |-> FormatBinary(data[i], Width(t))], "|"),
   delimiter  |-> "|",
   endianness |-> "LittleEndian"]

from_little_endian(t, data) ==
  [bits       |-> Join([i \in 1..Len(data) |->
                          Reverse(FormatBinary(data[i], Width(t)))], "|"),
   delimiter  |-> "|",
   endianness |-> "LittleEndian"]

(***************************************************************************)
(* Results of a call.                                                      *)
(***************************************************************************)
\* Ok(v) and Err(e) of a Result<T, ParseIntError>, the String a string-form
\* peek or to_string returns, the Vec<bool> of as_vec_bool and
\* transform_as_vec_bool, and a panic
Ok(v)   == [kind |-> "Ok", val |-> v, err |-> "none", str |-> <<>>, vec |-> <<>>]
Err(e)  == [kind |-> "Err", val |-> 0, err |-> e, str |-> <<>>, vec |-> <<>>]
Str(s)  == [kind |-> "Str", val |-> 0, err |-> "none", str |-> s, vec |-> <<>>]
Vec(v)  == [kind |-> "Vec", val |-> 0, err |-> "none", str |-> <<>>, vec |-> v]
Panic   == [kind |-> "Panic", val |-> 0, err |-> "none", str |-> <<>>, vec |-> <<>>]

(***************************************************************************)
(* Private helpers.                                                        *)
(***************************************************************************)
\* (mutant of get_next_n_bits: the loop stops at the end of the text and hands
\* back the digits it found)
get_next_n_bits_Truncating(b, d, size_to_read) ==
  LET digits == SelectSeq(b, LAMBDA c : c # d) IN
  IF ~(size_to_read <= Len(b)) THEN [panic |-> TRUE, slice |-> <<>>]
  ELSE IF Len(digits) < size_to_read THEN [panic |-> FALSE, slice |-> digits]
  ELSE [panic |-> FALSE, slice |-> SubSeq(digits, 1, size_to_read)]

\* The while loop of get_next_n_bits walks the text from its first character
\* and pushes every character that is not the delimiter, until the slice holds
\* size_to_read of them; when the text ends before that, chars().nth(idx) is
\* None and its unwrap() panics.
get_next_n_bits(b, d, size_to_read) ==
  LET digits == SelectSeq(b, LAMBDA c : c # d) IN
  IF ~(size_to_read <= Len(b)) THEN [panic |-> TRUE, slice |-> <<>>]  \* assert!
  ELSE IF Len(digits) < size_to_read THEN [panic |-> TRUE, slice |-> <<>>]
  ELSE [panic |-> FALSE, slice |-> SubSeq(digits, 1, size_to_read)]

\* (mutant of get_next_n_bits_as_string: the slice is handed back in stream
\* order whatever reverse is)
get_next_n_bits_as_string_InOrder(b, d, size_to_read, reverse) ==
  LET got == get_next_n_bits(b, d, size_to_read) IN
  IF got.panic THEN got ELSE [panic |-> FALSE, slice |-> got.slice]

get_next_n_bits_as_string(b, d, size_to_read, reverse) ==
  LET got == get_next_n_bits(b, d, size_to_read) IN
  IF got.panic THEN got
  ELSE [panic |-> FALSE,
        slice |-> IF reverse THEN Reverse(got.slice) ELSE got.slice]

\* x.chars().filter(|c| *c == self.delimiter).count()
CountDelim(x, d) == Len(SelectSeq(x, LAMBDA c : c = d))

move_n_bits(b, d, n) ==
  IF ~(n < Len(b)) THEN [panic |-> TRUE, bits |-> b]               \* assert!
  ELSE LET x        == SubSeq(b, 1, n + 1)                        \* &bits[..=n]
           nb_delim == CountDelim(x, d)
       IN  IF n + nb_delim > Len(b) THEN [panic |-> TRUE, bits |-> b]  \* slice index
           ELSE [panic |-> FALSE, bits |-> SubSeq(b, n + nb_delim + 1, Len(b))]

(***************************************************************************)
(* The other public functions.                                             *)
(***************************************************************************)
\* as_vec_bool: the characters of the stored text that are not the delimiter,
\* each mapped to c == '1'
as_vec_bool(b, d) ==
  LET f == SelectSeq(b, LAMBDA c : c # d) IN [i \in 1..Len(f) |-> f[i] = "1"]

\* format!("{:b}", v) for a value of a type of w bits: no padding; a negative
\* value prints the w bits of its two's complement
Binary(v, w) ==
  IF v >= 0 THEN NatBits(v) ELSE FlipBits(ZeroPad(NatBits(-v - 1), w))

\* (mutant of transform_as_vec_bool: the while loop that pads is left out)
transform_as_vec_bool_Unpadded(value, t) ==
  LET f == Binary(value, Width(t)) IN [i \in 1..Len(f) |-> f[i] = "1"]

\* transform_as_vec_bool::<T>(value): the characters of {:b} mapped to
\* c == '1', then false inserted at the front while the vector is shorter
\* than size_of::<T>() * 8
transform_as_vec_bool(value, t) ==
  LET size == Width(t)
      f    == Binary(value, Width(t))
      v    == [i \in 1..Len(f) |-> f[i] = "1"]
  IN  IF Len(v) < size THEN [i \in 1..(size - Len(v)) |-> FALSE] \o v ELSE v

\* to_string: format!("{}", self.bits), the stored text character by character
to_string(b) == [i \in 1..Len(b) |-> b[i]]

(***************************************************************************)
(* <T>::from_str_radix(s, 2) of a string of binary digits.                 *)
(***************************************************************************)
\* s without its leading zeros
StripZeros(s) ==
  LET ones == {i \in 1..Len(s) : s[i] = "1"} IN
  IF ones = {} THEN <<>>
  ELSE SubSeq(s, CHOOSE i \in ones : \A j \in ones : i <= j, Len(s))

\* the accumulation result = result * 2 + digit over the digits of s (leading
\* zeros leave the result at 0)
RECURSIVE BinValue(_)
BinValue(s) ==
  IF s = <<>> THEN 0
  ELSE 2 * BinValue(SubSeq(s, 1, Len(s) - 1)) + (IF s[Len(s)] = "1" THEN 1 ELSE 0)

\* (mutant of from_str_radix: the empty string parses as 0)
from_str_radix_EmptyIsZero(s, t) ==
  IF s = <<>> THEN Ok(0)
  ELSE IF Len(StripZeros(s)) > ValueBits(t) THEN Err("PosOverflow")
  ELSE Ok(BinValue(StripZeros(s)))

\* An empty string is Err(Empty). The accumulation is checked against T::MAX =
\* 2^ValueBits(T) - 1: it overflows exactly when the numeral has more than
\* ValueBits(T) significant digits, and that is Err(PosOverflow).
from_str_radix(s, t) ==
  IF s = <<>> THEN Err("Empty")
  ELSE IF Len(StripZeros(s)) > ValueBits(t) THEN Err("PosOverflow")
  ELSE Ok(BinValue(StripZeros(s)))

(***************************************************************************)
(* Peekers and consumers, for a target type t.                             *)
(***************************************************************************)
\* (mutant of peek_next_data_as: the two forms pass each other's flag to
\* get_next_n_bits_as_string)
peek_next_data_as_Swapped(b, d, t, size_to_read, reverse) ==
  IF ~(size_to_read <= AssertWidth(t)) THEN Panic
  ELSE LET got == get_next_n_bits_as_string(b, d, size_to_read, ~reverse) IN
       IF got.panic THEN Panic ELSE from_str_radix(got.slice, t)

\* peek_next_data_as_<t> (reverse = FALSE), peek_next_data_as_<t>_reversed (TRUE)
peek_next_data_as(b, d, t, size_to_read, reverse) ==
  IF ~(size_to_read <= AssertWidth(t)) THEN Panic                  \* assert!
  ELSE LET got == get_next_n_bits_as_string(b, d, size_to_read, reverse) IN
       IF got.panic THEN Panic ELSE from_str_radix(got.slice, t)

\* (mutant of peek_next_data_as_string: the first size_to_read characters of
\* the stored text, delimiters among them)
peek_next_data_as_string_Raw(b, d, size_to_read, reverse) ==
  IF ~(size_to_read <= Len(b)) THEN Panic
  ELSE Str(IF reverse THEN Reverse(SubSeq(b, 1, size_to_read))
           ELSE SubSeq(b, 1, size_to_read))

\* peek_next_data_as_string (reverse = FALSE), peek_next_data_as_string_reversed
peek_next_data_as_string(b, d, size_to_read, reverse) ==
  LET got == get_next_n_bits_as_string(b, d, size_to_read, reverse) IN
  IF got.panic THEN Panic ELSE Str(got.slice)

\* (mutant of consume_next_data_as: the stream is moved before the result is
\* looked at)
consume_next_data_as_MoveFirst(b, d, t, size_to_read, reverse) ==
  LET res   == peek_next_data_as(b, d, t, size_to_read, reverse)
      moved == move_n_bits(b, d, size_to_read)
  IN  IF res.kind = "Panic" \/ moved.panic THEN [out |-> Panic, bits |-> b]
      ELSE [out |-> res, bits |-> moved.bits]

\* consume_next_data_as_<t>[_reversed]: the result and the stream's text after
consume_next_data_as(b, d, t, size_to_read, reverse) ==
  LET res == peek_next_data_as(b, d, t, size_to_read, reverse) IN
  IF res.kind # "Ok" THEN [out |-> res, bits |-> b]                \* the ? operator
  ELSE LET moved == move_n_bits(b, d, size_to_read) IN
       IF moved.panic THEN [out |-> Panic, bits |-> b]
       ELSE [out |-> res, bits |-> moved.bits]

(***************************************************************************)
(* The fixed-length forms, named by the signedness and the width in their  *)
(* name: peek_next_unsigned_8_bits is (FALSE, 8), consume_next_signed_16_  *)
(* bits_reversed is (TRUE, 16) with reverse.                               *)
(***************************************************************************)
FixedWidths == {8, 16, 32, 64, 128}

\* (mutant of peek_next_bits: the signed 16-bit form reads 8 bits)
peek_next_bits_Short(b, d, signed, w, reverse) ==
  CASE ~signed /\ w = 8   -> peek_next_data_as(b, d, "u8", 8, reverse)
    [] ~signed /\ w = 16  -> peek_next_data_as(b, d, "u16", 16, reverse)
    [] ~signed /\ w = 32  -> peek_next_data_as(b, d, "u32", 32, reverse)
    [] ~signed /\ w = 64  -> peek_next_data_as(b, d, "u64", 64, reverse)
    [] ~signed /\ w = 128 -> peek_next_data_as(b, d, "u128", 128, reverse)
    [] signed /\ w = 8    -> peek_next_data_as(b, d, "i8", 8, reverse)
    [] signed /\ w = 16   -> peek_next_data_as(b, d, "i16", 8, reverse)
    [] signed /\ w = 32   -> peek_next_data_as(b, d, "i32", 32, reverse)
    [] signed /\ w = 64   -> peek_next_data_as(b, d, "i64", 64, reverse)
    [] signed /\ w = 128  -> peek_next_data_as(b, d, "i128", 128, reverse)

\* peek_next_unsigned_<w>_bits[_reversed], peek_next_signed_<w>_bits[_reversed]
peek_next_bits(b, d, signed, w, reverse) ==
  CASE ~signed /\ w = 8   -> peek_next_data_as(b, d, "u8", 8, reverse)
    [] ~signed /\ w = 16  -> peek_next_data_as(b, d, "u16", 16, reverse)
    [] ~signed /\ w = 32  -> peek_next_data_as(b, d, "u32", 32, reverse)
    [] ~signed /\ w = 64  -> peek_next_data_as(b, d, "u64", 64, reverse)
    [] ~signed /\ w = 128 -> peek_next_data_as(b, d, "u128", 128, reverse)
    [] signed /\ w = 8    -> peek_next_data_as(b, d, "i8", 8, reverse)
    [] signed /\ w = 16   -> peek_next_data_as(b, d, "i16", 16, reverse)
    [] signed /\ w = 32   -> peek_next_data_as(b, d, "i32", 32, reverse)
    [] signed /\ w = 64   -> peek_next_data_as(b, d, "i64", 64, reverse)
    [] signed /\ w = 128  -> peek_next_data_as(b, d, "i128", 128, reverse)

\* consume_next_unsigned_<w>_bits[_reversed],
\* consume_next_signed_<w>_bits[_reversed]
consume_next_bits(b, d, signed, w, reverse) ==
  CASE ~signed /\ w = 8   -> consume_next_data_as(b, d, "u8", 8, reverse)
    [] ~signed /\ w = 16  -> consume_next_data_as(b, d, "u16", 16, reverse)
    [] ~signed /\ w = 32  -> consume_next_data_as(b, d, "u32", 32, reverse)
    [] ~signed /\ w = 64  -> consume_next_data_as(b, d, "u64", 64, reverse)
    [] ~signed /\ w = 128 -> consume_next_data_as(b, d, "u128", 128, reverse)
    [] signed /\ w = 8    -> consume_next_data_as(b, d, "i8", 8, reverse)
    [] signed /\ w = 16   -> consume_next_data_as(b, d, "i16", 16, reverse)
    [] signed /\ w = 32   -> consume_next_data_as(b, d, "i32", 32, reverse)
    [] signed /\ w = 64   -> consume_next_data_as(b, d, "i64", 64, reverse)
    [] signed /\ w = 128  -> consume_next_data_as(b, d, "i128", 128, reverse)

(***************************************************************************)
(* The state: one Bits value and the call made on it.                      *)
(*   bits, delimiter, endianness  the fields of the struct                 *)
(*   ctor    the constructor call that built it: element type, endianness, *)
(*           data                                                          *)
(*   cursor  the number of bits the successful consumes asked for so far   *)
(*   last    the call in progress: its name, target type, size_to_read,    *)
(*           order, the text it found and its result; NoCall between calls *)
(* ctor, cursor and last record the history; the code does not read them.  *)
(*                                                                         *)
(* Beside it:                                                              *)
(*   twin      a second Bits holding the same bits in elements of another  *)
(*             width, given the same calls (SpecPair): its text and the    *)
(*             result of its last call; NoTwin elsewhere                   *)
(*   state     the field of a Counter<T> (src/src/counter.rs), a map from  *)
(*             the keys present to their counts (SpecCounter)              *)
(*   supplied  the items handed to the Counter so far, in order (history)  *)
(*   clast     the last call made on the Counter and its result (history): *)
(*             its name, its key or items, the map it found, and the       *)
(*             number (res), the (key, count) pairs or the boolean (same)  *)
(*             it returned                                                 *)
(***************************************************************************)
VARIABLES bits, delimiter, endianness, ctor, cursor, last,
          twin, state, supplied, clast

vars == <<bits, delimiter, endianness, ctor, cursor, last,
          twin, state, supplied, clast>>

\* what no call on the Bits touches
outside == <<twin, state, supplied, clast>>

NoTwin == [bits |-> <<>>, out |-> Ok(0)]

\* Counter::new(): Counter { state: BTreeMap::new() }, the map with no key
Counter_new == [k \in {} |-> 0]

NoCounterCall ==
  [op |-> "none", key |-> 0, items |-> <<>>, pre |-> Counter_new, res |-> 0,
   pairs |-> <<>>, same |-> FALSE]

\* no Counter is in use
CounterUnused ==
  /\ state = Counter_new
  /\ supplied = <<>>
  /\ clast = NoCounterCall

NoCall ==
  [op |-> "none", t |-> "u8", n |-> 0, r |-> FALSE, pre |-> <<>>, out |-> Ok(0)]

\* the element types and values the constructors are called with
ElemTypes == {"u8", "i8", "u16"}

ElemValues(t) ==
  CASE t = "u8"  -> {4, 128}
    [] t = "i8"  -> {4, -3}
    [] t = "u16" -> {4, 32772}
    [] t \in {"u64", "usize"} -> {0, 1}

\* the target types and sizes the peekers and consumers are called with
ReadTypes == {"u8", "i8", "u16", "i32"}

Sizes(t) == 0..(AssertWidth(t) + 1)

\* the sizes the string-form peeks are called with
MaxStringSize == 33

StringSizes == 0..MaxStringSize

\* the same for the streams of 64-bit elements, read as usize and isize
WideElemTypes == {"u64", "usize"}

WideReadTypes == {"usize", "isize"}

WideSizes == {0, 1, 63, 64, 65, 127, 128, 129}

Arrays(t, maxlen) == UNION {[1..k -> ElemValues(t)] : k \in 0..maxlen}

MaxLen(t, e) ==
  IF t = "u8" /\ e = "BigEndian" THEN MaxElems ELSE MaxElemsOther

ConstructBits(t, e, data) ==
  LET b == IF e = "BigEndian" THEN from_big_endian(t, data)
           ELSE from_little_endian(t, data)
  IN  /\ bits = b.bits
      /\ delimiter = b.delimiter
      /\ endianness = b.endianness
      /\ ctor = [ty |-> t, e |-> e, data |-> data]
      /\ cursor = 0
      /\ last = NoCall

Construct(t, e, data) ==
  /\ ConstructBits(t, e, data)
  /\ twin = NoTwin
  /\ CounterUnused

Init ==
  \E t \in ElemTypes, e \in {"BigEndian", "LittleEndian"} :
    \E data \in Arrays(t, MaxLen(t, e)) : Construct(t, e, data)

InitWide ==
  \E t \in WideElemTypes, e \in {"BigEndian", "LittleEndian"} :
    \E data \in Arrays(t, MaxElemsOther) : Construct(t, e, data)

\* The checker's integers end at 2^31 - 1: a call whose Ok value would be larger
\* is not among the explored calls.
Evaluable(b, d, t, n, r) ==
  LET got == get_next_n_bits_as_string(b, d, n, r) IN
  \/ n > AssertWidth(t)
  \/ got.panic
  \/ Len(StripZeros(got.slice)) <= 31
  \/ Len(StripZeros(got.slice)) > ValueBits(t)

\* (mutant of Peek: the peek advances the stream as a consume does)
Peek_Advancing(t, n, r) ==
  /\ last.op = "none"
  /\ Evaluable(bits, delimiter, t, n, r)
  /\ LET c == consume_next_data_as(bits, delimiter, t, n, r) IN
       /\ bits' = c.bits
       /\ last' = [op |-> "peek", t |-> t, n |-> n, r |-> r, pre |-> bits,
                   out |-> c.out]
  /\ UNCHANGED <<delimiter, endianness, ctor, cursor>>
  /\ UNCHANGED outside

\* a call of peek_next_data_as_<t>[_reversed](n)
Peek(t, n, r) ==
  /\ last.op = "none"
  /\ Evaluable(bits, delimiter, t, n, r)
  /\ last' = [op |-> "peek", t |-> t, n |-> n, r |-> r, pre |-> bits,
              out |-> peek_next_data_as(bits, delimiter, t, n, r)]
  /\ UNCHANGED <<bits, delimiter, endianness, ctor, cursor>>
  /\ UNCHANGED outside

\* a call of peek_next_data_as_string[_reversed](n)
PeekString(n, r) ==
  /\ last.op = "none"
  /\ last' = [op |-> "peek_string", t |-> "u8", n |-> n, r |-> r, pre |-> bits,
              out |-> peek_next_data_as_string(bits, delimiter, n, r)]
  /\ UNCHANGED <<bits, delimiter, endianness, ctor, cursor>>
  /\ UNCHANGED outside

\* a call of consume_next_data_as_<t>[_reversed](n)
Consume(t, n, r) ==
  /\ last.op = "none"
  /\ Evaluable(bits, delimiter, t, n, r)
  /\ LET c == consume_next_data_as(bits, delimiter, t, n, r) IN
       /\ bits' = c.bits
       /\ cursor' = IF c.out.kind = "Ok" THEN cursor + n ELSE cursor
       /\ last' = [op |-> "consume", t |-> t, n |-> n, r |-> r, pre |-> bits,
                   out |-> c.out]
  /\ UNCHANGED <<delimiter, endianness, ctor>>
  /\ UNCHANGED outside

\* a call of as_vec_bool()
AsVecBool ==
  /\ last.op = "none"
  /\ last' = [op |-> "as_vec_bool", t |-> "u8", n |-> 0, r |-> FALSE, pre |-> bits,
              out |-> Vec(as_vec_bool(bits, delimiter))]
  /\ UNCHANGED <<bits, delimiter, endianness, ctor, cursor>>
  /\ UNCHANGED outside

\* a call of to_string()
Render ==
  /\ last.op = "none"
  /\ last' = [op |-> "to_string", t |-> "u8", n |-> 0, r |-> FALSE, pre |-> bits,
              out |-> Str(to_string(bits))]
  /\ UNCHANGED <<bits, delimiter, endianness, ctor, cursor>>
  /\ UNCHANGED outside

\* the word for the signedness in the name of a fixed-length form
SignWord(signed) == IF signed THEN "signed" ELSE "unsigned"

\* a call of peek_next_<signed|unsigned>_<w>_bits[_reversed]()
FixedPeek(signed, w, r) ==
  /\ last.op = "none"
  /\ \A t \in IntTypes : Width(t) = w => Evaluable(bits, delimiter, t, w, r)
  /\ last' = [op |-> "peek_fixed", t |-> SignWord(signed), n |-> w, r |-> r,
              pre |-> bits, out |-> peek_next_bits(bits, delimiter, signed, w, r)]
  /\ UNCHANGED <<bits, delimiter, endianness, ctor, cursor>>
  /\ UNCHANGED outside

\* a call of consume_next_<signed|unsigned>_<w>_bits[_reversed]()
FixedConsume(signed, w, r) ==
  /\ last.op = "none"
  /\ \A t \in IntTypes : Width(t) = w => Evaluable(bits, delimiter, t, w, r)
  /\ LET c == consume_next_bits(bits, delimiter, signed, w, r) IN
       /\ bits' = c.bits
       /\ cursor' = IF c.out.kind = "Ok" THEN cursor + w ELSE cursor
       /\ last' = [op |-> "consume_fixed", t |-> SignWord(signed), n |-> w,
                   r |-> r, pre |-> bits, out |-> c.out]
  /\ UNCHANGED <<delimiter, endianness, ctor>>
  /\ UNCHANGED outside

\* a call of Bits::transform_as_vec_bool::<T>(value), an associated function
\* without self, with T the type and value the element the stream at hand was
\* built from
Transform ==
  /\ last.op = "none"
  /\ Len(ctor.data) = 1
  /\ last' = [op |-> "transform", t |-> ctor.ty, n |-> 0, r |-> FALSE, pre |-> bits,
              out |-> Vec(transform_as_vec_bool(ctor.data[1], ctor.ty))]
  /\ UNCHANGED <<bits, delimiter, endianness, ctor, cursor>>
  /\ UNCHANGED outside

\* the call returns to its caller, who may call again; a panic ends the
\* program
Return ==
  /\ last.op # "none"
  /\ last.out.kind # "Panic"
  /\ last' = NoCall
  /\ UNCHANGED <<bits, delimiter, endianness, ctor, cursor>>
  /\ UNCHANGED outside

Next ==
  \/ \E t \in ReadTypes : \E n \in Sizes(t), r \in BOOLEAN : Peek(t, n, r)
  \/ \E t \in ReadTypes : \E n \in Sizes(t), r \in BOOLEAN : Consume(t, n, r)
  \/ \E n \in StringSizes, r \in BOOLEAN : PeekString(n, r)
  \/ AsVecBool
  \/ Render
  \/ Return

Spec == Init /\ [][Next]_vars

NextWide ==
  \/ \E t \in WideReadTypes : \E n \in WideSizes, r \in BOOLEAN : Peek(t, n, r)
  \/ \E t \in WideReadTypes : \E n \in WideSizes, r \in BOOLEAN : Consume(t, n, r)
  \/ \E n \in WideSizes, r \in BOOLEAN : PeekString(n, r)
  \/ Return

SpecWide == InitWide /\ [][NextWide]_vars

(***************************************************************************)
(* The round trip: a stream built big-endian from unsigned elements, read  *)
(* back only by consume_next_data_as_<T>(W) with T and W those of the      *)
(* elements.                                                               *)
(***************************************************************************)
InitRoundTrip ==
  \E t \in {"u8", "u16"} :
    \E data \in Arrays(t, MaxLen(t, "BigEndian")) : Construct(t, "BigEndian", data)

NextRoundTrip ==
  \/ Consume(ctor.ty, Width(ctor.ty), FALSE)
  \/ Return

SpecRoundTrip == InitRoundTrip /\ [][NextRoundTrip]_vars

(***************************************************************************)
(* transform_as_vec_bool: a value v of a type T, the big-endian stream of  *)
(* the one-element array [v], and the calls transform_as_vec_bool::<T>(v)  *)
(* and as_vec_bool() on that stream.                                       *)
(***************************************************************************)
TransformTypes == {"u8", "i8", "u16", "i16"}

TransformValues(t) ==
  CASE t = "u8"  -> 0..255
    [] t = "i8"  -> -128..127
    [] t = "u16" -> {0, 1, 255, 256, 32767, 32768, 65535}
    [] t = "i16" -> {-32768, -32767, -256, -1, 0, 1, 255, 256, 32767}

InitTransform ==
  \E t \in TransformTypes :
    \E v \in TransformValues(t) : Construct(t, "BigEndian", <<v>>)

NextTransform ==
  \/ Transform
  \/ AsVecBool
  \/ Return

SpecTransform == InitTransform /\ [][NextTransform]_vars

(***************************************************************************)
(* The doc examples of the u8 constructors: a stream built from a slice of *)
(* the bytes 0..3, as the examples' vec![0, 1, 2, 3] and [0, 1, 2, 3], then *)
(* rendered.                                                               *)
(***************************************************************************)
DocValues == {0, 1, 2, 3}

InitDoc ==
  \E e \in {"BigEndian", "LittleEndian"} :
    \E data \in UNION {[1..k -> DocValues] : k \in 0..MaxElems} :
      Construct("u8", e, data)

NextDoc ==
  \/ Render
  \/ AsVecBool
  \/ Return

SpecDoc == InitDoc /\ [][NextDoc]_vars

(***************************************************************************)
(* The fixed-length forms, called on the streams of Spec and of SpecWide.  *)
(***************************************************************************)
InitFixed == Init \/ InitWide

NextFixed ==
  \/ \E signed \in BOOLEAN, w \in FixedWidths, r \in BOOLEAN : FixedPeek(signed, w, r)
  \/ \E signed \in BOOLEAN, w \in FixedWidths, r \in BOOLEAN : FixedConsume(signed, w, r)
  \/ Return

SpecFixed == InitFixed /\ [][NextFixed]_vars

(***************************************************************************)
(* One unsigned element: the stream of the one-element array [v], built in *)
(* either endianness, and the peeks of all its W bits as its own type.     *)
(***************************************************************************)
InitOne ==
  \E t \in {"u8", "u16"}, e \in {"BigEndian", "LittleEndian"} :
    \E v \in TransformValues(t) : Construct(t, e, <<v>>)

NextOne ==
  \/ \E r \in BOOLEAN : Peek(ctor.ty, Width(ctor.ty), r)
  \/ Return

SpecOne == InitOne /\ [][NextOne]_vars

(***************************************************************************)
(* Two streams stepped together: one built by from_u8_big_endian from an   *)
(* array of an even number of u8 elements, its twin built by               *)
(* from_u16_big_endian from the u16 elements that hold the same bits, two  *)
(* u8 elements to one u16.  Every peek and consume is made on both.        *)
(***************************************************************************)
PairReadTypes == {"u8", "u16", "i32"}

\* the u16 elements holding the bits of the u8 elements of data
Paired(data) == [i \in 1..(Len(data) \div 2) |-> data[2 * i - 1] * 256 + data[2 * i]]

InitPair ==
  \E data \in Arrays("u8", MaxElems) :
    /\ Len(data) % 2 = 0
    /\ ConstructBits("u8", "BigEndian", data)
    /\ twin = [bits |-> from_big_endian("u16", Paired(data)).bits, out |-> Ok(0)]
    /\ CounterUnused

\* peek_next_data_as_<t>[_reversed](n) called on both streams
PairPeek(t, n, r) ==
  /\ last.op = "none"
  /\ Evaluable(bits, delimiter, t, n, r)
  /\ Evaluable(twin.bits, delimiter, t, n, r)
  /\ last' = [op |-> "peek", t |-> t, n |-> n, r |-> r, pre |-> bits,
              out |-> peek_next_data_as(bits, delimiter, t, n, r)]
  /\ twin' = [bits |-> twin.bits,
              out  |-> peek_next_data_as(twin.bits, delimiter, t, n, r)]
  /\ UNCHANGED <<bits, delimiter, endianness, ctor, cursor>>
  /\ UNCHANGED <<state, supplied, clast>>

\* consume_next_data_as_<t>[_reversed](n) called on both streams
PairConsume(t, n, r) ==
  /\ last.op = "none"
  /\ Evaluable(bits, delimiter, t, n, r)
  /\ Evaluable(twin.bits, delimiter, t, n, r)
  /\ LET c  == consume_next_data_as(bits, delimiter, t, n, r)
         ct == consume_next_data_as(twin.bits, delimiter, t, n, r)
     IN  /\ bits' = c.bits
         /\ cursor' = IF c.out.kind = "Ok" THEN cursor + n ELSE cursor
         /\ last' = [op |-> "consume", t |-> t, n |-> n, r |-> r, pre |-> bits,
                     out |-> c.out]
         /\ twin' = [bits |-> ct.bits, out |-> ct.out]
  /\ UNCHANGED <<delimiter, endianness, ctor>>
  /\ UNCHANGED <<state, supplied, clast>>

\* both calls return and the next call can be made; a panic of either ends
\* the run
PairReturn ==
  /\ last.op # "none"
  /\ last.out.kind # "Panic"
  /\ twin.out.kind # "Panic"
  /\ last' = NoCall
  /\ twin' = [bits |-> twin.bits, out |-> Ok(0)]
  /\ UNCHANGED <<bits, delimiter, endianness, ctor, cursor>>
  /\ UNCHANGED <<state, supplied, clast>>

NextPair ==
  \/ \E t \in PairReadTypes : \E n \in Sizes(t), r \in BOOLEAN : PairPeek(t, n, r)
  \/ \E t \in PairReadTypes : \E n \in Sizes(t), r \in BOOLEAN : PairConsume(t, n, r)
  \/ PairReturn

SpecPair == InitPair /\ [][NextPair]_vars

(***************************************************************************)
(* Counter<T> { state: BTreeMap<T, u128> } (src/src/counter.rs).  The map  *)
(* is a function from the keys present to their counts; the keys are the   *)
(* integers 1..NumKeys, ordered as T: Ord orders them.                     *)
(***************************************************************************)
Keys == 1..NumKeys

\* (mutant of update_from_value: the count of the key is set to 1)
update_from_value_Reset(s, elem) ==
  [k \in DOMAIN s \cup {elem} |-> IF k = elem THEN 1 ELSE s[k]]

\* update_from_value: let count = self.state.entry(elem).or_insert(0);
\* *count += 1
update_from_value(s, elem) ==
  LET inserted == [k \in DOMAIN s \cup {elem} |-> IF k \in DOMAIN s THEN s[k] ELSE 0]
  IN  [inserted EXCEPT ![elem] = @ + 1]

\* (mutant of update_from_iter: a key not yet present is inserted with 1
\* before the 1 is added)
RECURSIVE update_from_iter_InsertOne(_, _)
update_from_iter_InsertOne(s, iter) ==
  IF iter = <<>> THEN s
  ELSE LET elem     == Head(iter)
           inserted == [k \in DOMAIN s \cup {elem} |->
                          IF k \in DOMAIN s THEN s[k] ELSE 1]
       IN  update_from_iter_InsertOne([inserted EXCEPT ![elem] = @ + 1], Tail(iter))

\* update_from_iter: for elem in iter { entry(elem).or_insert(0) += 1 }
RECURSIVE update_from_iter(_, _)
update_from_iter(s, iter) ==
  IF iter = <<>> THEN s
  ELSE LET elem     == Head(iter)
           inserted == [k \in DOMAIN s \cup {elem} |->
                          IF k \in DOMAIN s THEN s[k] ELSE 0]
       IN  update_from_iter([inserted EXCEPT ![elem] = @ + 1], Tail(iter))

\* FromIterator::from_iter: Counter::new(), then update_from_iter
from_iter(iter) == update_from_iter(Counter_new, iter)

\* Index::index: match self.state.get(&index) { Some(value) => value,
\* None => &0 }
index(s, k) == IF k \in DOMAIN s THEN s[k] ELSE 0

\* (mutant of len: the counts are added up)
RECURSIVE len_OfItems(_)
len_OfItems(s) ==
  IF DOMAIN s = {} THEN 0
  ELSE LET k == CHOOSE x \in DOMAIN s : TRUE
       IN  s[k] + len_OfItems([x \in DOMAIN s \ {k} |-> s[x]])

\* len: self.state.len(), the number of keys of the map
len(s) == Cardinality(DOMAIN s)

\* (mutant of eq: the lengths are not compared)
eq_NoLenCheck(s, other) ==
  \A key \in DOMAIN s : key \in DOMAIN other /\ s[key] = other[key]

\* PartialEq::eq: when the two maps have the same len, every (key, value) of
\* self must have other.state.get(key) == Some(value); otherwise false
eq(s, other) ==
  IF len(s) = len(other)
  THEN \A key \in DOMAIN s : key \in DOMAIN other /\ s[key] = other[key]
  ELSE FALSE

\* (mutant of iter: the pairs come in descending key order)
RECURSIVE iter_Descending(_)
iter_Descending(s) ==
  IF DOMAIN s = {} THEN <<>>
  ELSE LET k == CHOOSE x \in DOMAIN s : \A y \in DOMAIN s : y <= x
       IN  <<(<<k, s[k]>>)>> \o iter_Descending([x \in DOMAIN s \ {k} |-> s[x]])

\* iter: self.state.iter(), the (key, count) pairs of the BTreeMap from its
\* least key upwards
RECURSIVE iter(_)
iter(s) ==
  IF DOMAIN s = {} THEN <<>>
  ELSE LET k == CHOOSE x \in DOMAIN s : \A y \in DOMAIN s : x <= y
       IN  <<(<<k, s[k]>>)>> \o iter([x \in DOMAIN s \ {k} |-> s[x]])

\* IntoIterator::into_iter: self.state.into_iter(), the same pairs, owned
RECURSIVE into_iter(_)
into_iter(s) ==
  IF DOMAIN s = {} THEN <<>>
  ELSE LET k == CHOOSE x \in DOMAIN s : \A y \in DOMAIN s : x <= y
       IN  <<(<<k, s[k]>>)>> \o into_iter([x \in DOMAIN s \ {k} |-> s[x]])

\* into_iter(self) takes the Counter by value: no call can follow it
Alive == clast.op # "into_iter"

\* the iterators handed to update_from_iter and from_iter
Iters(maxlen) == UNION {[1..n -> Keys] : n \in 0..maxlen}

\* let counter = Counter::new();  or  let counter = Counter::from_iter(iter);
InitCounter ==
  /\ ConstructBits("u8", "BigEndian", <<>>)
  /\ twin = NoTwin
  /\ \/ /\ state = Counter_new
        /\ supplied = <<>>
        /\ clast = [op |-> "new", key |-> 0, items |-> <<>>, pre |-> Counter_new,
                    res |-> 0,
                    pairs |-> <<>>, same |-> FALSE]
     \/ \E items \in Iters(MaxItems) :
          /\ state = from_iter(items)
          /\ supplied = items
          /\ clast = [op |-> "from_iter", key |-> 0, items |-> items,
                      pre |-> Counter_new, res |-> 0,
                      pairs |-> <<>>, same |-> FALSE]

\* counter.update_from_value(elem)
UpdateFromValue(elem) ==
  /\ Alive
  /\ Len(supplied) + 1 <= MaxItems
  /\ state' = update_from_value(state, elem)
  /\ supplied' = Append(supplied, elem)
  /\ clast' = [op |-> "update_from_value", key |-> elem, items |-> <<>>,
               pre |-> state, res |-> 0,
               pairs |-> <<>>, same |-> FALSE]
  /\ UNCHANGED <<bits, delimiter, endianness, ctor, cursor, last, twin>>

\* counter.update_from_iter(items)
UpdateFromIter(items) ==
  /\ Alive
  /\ Len(supplied) + Len(items) <= MaxItems
  /\ state' = update_from_iter(state, items)
  /\ supplied' = supplied \o items
  /\ clast' = [op |-> "update_from_iter", key |-> 0, items |-> items,
               pre |-> state, res |-> 0,
               pairs |-> <<>>, same |-> FALSE]
  /\ UNCHANGED <<bits, delimiter, endianness, ctor, cursor, last, twin>>

\* counter[k]
IndexCall(k) ==
  /\ Alive
  /\ clast' = [op |-> "index", key |-> k, items |-> <<>>, pre |-> state,
               res |-> index(state, k),
               pairs |-> <<>>, same |-> FALSE]
  /\ UNCHANGED <<state, supplied>>
  /\ UNCHANGED <<bits, delimiter, endianness, ctor, cursor, last, twin>>

\* counter.len()
LenCall ==
  /\ Alive
  /\ clast' = [op |-> "len", key |-> 0, items |-> <<>>, pre |-> state,
               res |-> len(state),
               pairs |-> <<>>, same |-> FALSE]
  /\ UNCHANGED <<state, supplied>>
  /\ UNCHANGED <<bits, delimiter, endianness, ctor, cursor, last, twin>>

\* counter.iter(), collected
IterCall ==
  /\ Alive
  /\ clast' = [op |-> "iter", key |-> 0, items |-> <<>>, pre |-> state, res |-> 0,
               pairs |-> iter(state), same |-> FALSE]
  /\ UNCHANGED <<state, supplied>>
  /\ UNCHANGED <<bits, delimiter, endianness, ctor, cursor, last, twin>>

\* counter.into_iter(), collected
IntoIterCall ==
  /\ Alive
  /\ clast' = [op |-> "into_iter", key |-> 0, items |-> <<>>, pre |-> state,
               res |-> 0, pairs |-> into_iter(state), same |-> FALSE]
  /\ UNCHANGED <<state, supplied>>
  /\ UNCHANGED <<bits, delimiter, endianness, ctor, cursor, last, twin>>

\* counter == Counter::from_iter(items)
EqCall(items) ==
  /\ Alive
  /\ clast' = [op |-> "eq", key |-> 0, items |-> items, pre |-> state, res |-> 0,
               pairs |-> <<>>, same |-> eq(state, from_iter(items))]
  /\ UNCHANGED <<state, supplied>>
  /\ UNCHANGED <<bits, delimiter, endianness, ctor, cursor, last, twin>>

NextCounter ==
  \/ \E elem \in Keys : UpdateFromValue(elem)
  \/ \E items \in Iters(MaxIterLen) : UpdateFromIter(items)
  \/ \E k \in Keys : IndexCall(k)
  \/ LenCall
  \/ IterCall
  \/ IntoIterCall

SpecCounter == InitCounter /\ [][NextCounter]_vars

\* Two Counters compared: one built by from_iter, the other built by from_iter
\* for the comparison
InitCounterEq ==
  /\ ConstructBits("u8", "BigEndian", <<>>)
  /\ twin = NoTwin
  /\ \E items \in Iters(MaxIterLen) :
       /\ state = from_iter(items)
       /\ supplied = items
       /\ clast = [op |-> "from_iter", key |-> 0, items |-> items,
                   pre |-> Counter_new, res |-> 0,
                   pairs |-> <<>>, same |-> FALSE]

NextCounterEq == \E items \in Iters(MaxIterLen) : EqCall(items)

SpecCounterEq == InitCounterEq /\ [][NextCounterEq]_vars

(***************************************************************************)
(* The abstract stream the properties are stated against: the sequence of  *)
(* binary digits, the cursor, and the numeral a slice of digits denotes.   *)
(***************************************************************************)
\* the binary digits of a text, in order: the bits that remain
Digits(b) == SelectSeq(b, LAMBDA c : c \in {"0", "1"})

\* the text the constructor call produced
Constructed ==
  IF ctor.e = "BigEndian" THEN from_big_endian(ctor.ty, ctor.data)
  ELSE from_little_endian(ctor.ty, ctor.data)

\* the bit sequence of the stream, fixed at construction
OrigBits == Digits(Constructed.bits)

\* the value of a binary numeral: the sum of the weights 2^j of its 1 digits
RECURSIVE Numeral(_)
Numeral(s) ==
  IF s = <<>> THEN 0
  ELSE (IF Head(s) = "1" THEN 2 ^ (Len(s) - 1) ELSE 0) + Numeral(Tail(s))

\* the numeral s is larger than 2^k - 1: a digit of weight 2^k or more is 1
NumeralExceeds(s, k) == \E i \in 1..Len(s) : s[i] = "1" /\ Len(s) - i >= k

\* the slice a read of n bits in the given order takes from the text b
Window(b, n, r) ==
  LET w == SubSeq(Digits(b), 1, n) IN
  IF r THEN [i \in 1..n |-> w[n + 1 - i]] ELSE w

Remaining(b) == Len(Digits(b))

LastIsRead == last.op \in {"peek", "consume"}

\* the cursor before the call in last
CursorBefore ==
  IF last.op = "consume" /\ last.out.kind = "Ok" THEN cursor - last.n ELSE cursor

(***************************************************************************)
(* C1. Round trip: on the stream built big-endian from the unsigned array  *)
(* A of elements of width W, the i-th consume of W bits (unsigned, normal  *)
(* order) returns the value A[i], for every i up to len(A), the last one   *)
(* included.                                                               *)
(***************************************************************************)
C1_RoundTrip ==
  last.op = "consume" =>
    LET i == CursorBefore \div Width(ctor.ty) + 1 IN
    i <= Len(ctor.data) => last.out = Ok(ctor.data[i])

(***************************************************************************)
(* C2. A successful consume of size_to_read bits removes exactly           *)
(* size_to_read bits from the remaining length.                            *)
(***************************************************************************)
C2_ConsumeRemovesExactly ==
  (last.op = "consume" /\ last.out.kind = "Ok") =>
    Remaining(bits) = Remaining(last.pre) - last.n

(***************************************************************************)
(* C3. The text stays related to the abstract (bits, cursor) stream: the   *)
(* cursor is within 0..len(bits), the bits that remain are the suffix of   *)
(* the original bit sequence from the cursor on, and a successful consume  *)
(* has read the original bits at [cursor before, cursor before + n).       *)
(***************************************************************************)
C3_ConsecutiveSlices ==
  /\ 0 <= cursor /\ cursor <= Len(OrigBits)
  /\ Digits(bits) = SubSeq(OrigBits, cursor + 1, Len(OrigBits))
  /\ (last.op = "consume" /\ last.out.kind = "Ok") =>
       Window(last.pre, last.n, FALSE) = SubSeq(OrigBits, CursorBefore + 1, cursor)

(***************************************************************************)
(* C4. The only length precondition of a read is that size_to_read bits    *)
(* remain: a peek or consume of 1..width bits of which enough remain, and  *)
(* whose slice is in the target's range, returns the slice's value; so a   *)
(* consume returns what the peek of the same parameters returns, also when *)
(* it takes all the bits that remain.                                      *)
(***************************************************************************)
C4_ReadNeedsOnlyEnoughBits ==
  (/\ LastIsRead
   /\ 1 <= last.n /\ last.n <= Width(last.t)
   /\ last.n <= Remaining(last.pre)
   /\ ~NumeralExceeds(Window(last.pre, last.n, last.r), ValueBits(last.t)))
  => /\ last.out.kind = "Ok"
     /\ last.out = peek_next_data_as(last.pre, delimiter, last.t, last.n, last.r)

UnsignedOf(t) ==
  CASE t = "i8" -> "u8" [] t = "i16" -> "u16" [] t = "i32" -> "u32"
    [] t = "i64" -> "u64" [] t = "i128" -> "u128" [] t = "isize" -> "usize"

(***************************************************************************)
(* C5. Peek is non-destructive and idempotent: a peek, numeric or          *)
(* string-form, in either order, leaves the stored text, the remaining     *)
(* bits and the endianness tag as they were, and the same peek made again  *)
(* on the stream returns the same result.                                  *)
(***************************************************************************)
C5_PeekLeavesStream ==
  last.op \in {"peek", "peek_string"} =>
    /\ bits = last.pre
    /\ Digits(bits) = Digits(last.pre)
    /\ endianness = ctor.e
    /\ last.out = IF last.op = "peek"
                  THEN peek_next_data_as(bits, delimiter, last.t, last.n, last.r)
                  ELSE peek_next_data_as_string(bits, delimiter, last.n, last.r)

\* a numeric peek that returned a value, on a stream already partly consumed
C5_Witness ==
  last.op = "peek" /\ last.out.kind = "Ok" /\ last.n > 1 /\ cursor > 0

(***************************************************************************)
(* C6. A peek or consume that asks for more bits than remain never returns *)
(* a value: it panics, and the text is what it was before the call,        *)
(* whatever delimiters the text holds.                                     *)
(***************************************************************************)
C6_OutOfRangeRejected ==
  (last.op # "none" /\ last.n > Remaining(last.pre)) =>
    /\ last.out.kind = "Panic"
    /\ bits = last.pre

\* 4 bits remain and a consume asks for 5
C6_Witness ==
  /\ last.op = "consume" /\ Remaining(last.pre) = 4 /\ last.n = 5
  /\ last.out.kind = "Panic"

(***************************************************************************)
(* C7. A consume whose slice, as a binary numeral, exceeds the maximum of  *)
(* its signed target returns Err(PosOverflow), not a panic, and leaves the *)
(* stream as it was: the unsigned read of the same size that follows sees  *)
(* the same bits.                                                          *)
(***************************************************************************)
C7_OverflowIsRecoverable ==
  (/\ last.op = "consume" /\ Signed(last.t)
   /\ last.n <= Width(last.t) /\ last.n <= Remaining(last.pre)
   /\ NumeralExceeds(Window(last.pre, last.n, last.r), ValueBits(last.t)))
  => /\ last.out = Err("PosOverflow")
     /\ bits = last.pre
     /\ cursor = CursorBefore
     /\ Window(bits, last.n, last.r) = Window(last.pre, last.n, last.r)
     /\ Width(last.t) <= 16 =>
          peek_next_data_as(bits, delimiter, UnsignedOf(last.t), last.n, last.r)
            = Ok(Numeral(Window(last.pre, last.n, last.r)))

\* a consume as i8 of 8 bits that start with a 1, after an earlier consume
C7_Witness ==
  /\ last.op = "consume" /\ last.t = "i8" /\ last.n = 8 /\ cursor > 0
  /\ last.out = Err("PosOverflow")

(***************************************************************************)
(* C8. A signed read is the literal parse of the binary numeral: a read    *)
(* (a peek or a consume) of n <= W bits as a signed target of width W, the *)
(* slice's numeral being x, returns x (not negative, and what the unsigned *)
(* peek of the same slice returns) when x <= 2^(W-1) - 1 and               *)
(* Err(PosOverflow) otherwise; the 8 bits 10000000 fail when read as i8    *)
(* and give 128 when read as u8.                                           *)
(***************************************************************************)
C8_SignedIsLiteralParse ==
  /\ (/\ LastIsRead /\ Signed(last.t)
      /\ 1 <= last.n /\ last.n <= Width(last.t) /\ last.n <= Remaining(last.pre))
     => LET s == Window(last.pre, last.n, last.r) IN
        IF NumeralExceeds(s, Width(last.t) - 1)
        THEN last.out = Err("PosOverflow")
        ELSE /\ last.out = Ok(Numeral(s))
             /\ last.out.val >= 0
             /\ last.out = peek_next_data_as(last.pre, delimiter,
                                             UnsignedOf(last.t), last.n, last.r)
  /\ (/\ LastIsRead /\ last.n = 8 /\ last.n <= Remaining(last.pre)
      /\ Window(last.pre, 8, last.r) = <<"1", "0", "0", "0", "0", "0", "0", "0">>)
     => /\ last.t = "i8" => last.out = Err("PosOverflow")
        /\ last.t = "u8" => last.out = Ok(128)

(***************************************************************************)
(* C9. Width precondition: a peek or consume whose size_to_read exceeds    *)
(* the bit capacity of its target type, usize and isize included, panics:  *)
(* it returns neither a value nor an error result.                         *)
(***************************************************************************)
C9_WidthPrecondition ==
  (LastIsRead /\ last.n > Width(last.t)) => last.out.kind = "Panic"

(***************************************************************************)
(* C10. Big-endian construction: the bit sequence of the stream built from *)
(* the array A of width-W elements is the concatenation, in input order,   *)
(* of the W-bit most-significant-bit-first expansions of A[i] mod 2^W, and *)
(* its length is len(A) * W.                                               *)
(***************************************************************************)
\* the W binary digits of v mod 2^W, the digit of weight 2^(W-1) first
Expansion(v, w) ==
  [i \in 1..w |-> IF ((v % (2 ^ w)) \div (2 ^ (w - i))) % 2 = 1 THEN "1" ELSE "0"]

RECURSIVE Concat(_)
Concat(ss) == IF ss = <<>> THEN <<>> ELSE Head(ss) \o Concat(Tail(ss))

C10_BigEndianConstruction ==
  (ctor.e = "BigEndian" /\ cursor = 0) =>
    /\ Digits(bits) =
         Concat([i \in 1..Len(ctor.data) |->
                   Expansion(ctor.data[i], Width(ctor.ty))])
    /\ Len(Digits(bits)) = Len(ctor.data) * Width(ctor.ty)

\* a fresh big-endian stream of two signed elements, the first one negative
C10_Witness ==
  /\ ctor.e = "BigEndian" /\ ctor.ty = "i8" /\ Len(ctor.data) = 2
  /\ ctor.data[1] < 0
  /\ cursor = 0 /\ last.op = "none"
  /\ Len(bits) = 17

(***************************************************************************)
(* C11  Little-endian construction is per-element bit reversal.  A stream  *)
(* built little-endian holds, for each element in input order, its W bits  *)
(* least significant first; the elements themselves are not reordered.     *)
(* The 8-bit elements 0,1,2,3 render as                                    *)
(* 00000000|10000000|01000000|11000000, and the stream of the single 8-bit *)
(* element 1 has the boolean sequence true followed by seven false.        *)
(***************************************************************************)
\* the W binary digits of v mod 2^W, the digit of weight 2^0 first
LsbFirst(v, w) ==
  [i \in 1..w |-> IF ((v % (2 ^ w)) \div (2 ^ (i - 1))) % 2 = 1 THEN "1" ELSE "0"]

\* the characters of a numeral written as a tuple of 0 and 1
Chars(l) == [i \in 1..Len(l) |-> IF l[i] = 1 THEN "1" ELSE "0"]

C11_LittleEndianConstruction ==
  /\ (ctor.e = "LittleEndian" /\ cursor = 0) =>
       /\ Digits(bits) =
            Concat([i \in 1..Len(ctor.data) |->
                      LsbFirst(ctor.data[i], Width(ctor.ty))])
       /\ Len(Digits(bits)) = Len(ctor.data) * Width(ctor.ty)
  /\ to_string(from_little_endian("u8", <<0, 1, 2, 3>>).bits) =
       Chars(<<0,0,0,0,0,0,0,0>>) \o <<"|">> \o Chars(<<1,0,0,0,0,0,0,0>>) \o <<"|">>
         \o Chars(<<0,1,0,0,0,0,0,0>>) \o <<"|">> \o Chars(<<1,1,0,0,0,0,0,0>>)
  /\ as_vec_bool(from_little_endian("u8", <<1>>).bits, "|") =
       <<TRUE, FALSE, FALSE, FALSE, FALSE, FALSE, FALSE, FALSE>>

\* as_vec_bool of the fresh little-endian stream of the u8 elements 128, 4:
\* seven false, true, then the bits 00100000 of 4
C11_Witness ==
  /\ ctor.e = "LittleEndian" /\ ctor.ty = "u8" /\ ctor.data = <<128, 4>>
  /\ cursor = 0
  /\ last.op = "as_vec_bool"
  /\ Len(last.out.vec) = 16
  /\ last.out.vec[8] /\ last.out.vec[11] /\ ~last.out.vec[1] /\ ~last.out.vec[14]

(***************************************************************************)
(* C12  Reversed read.  A normal peek or consume of n bits returns the     *)
(* number whose binary numeral is the slice in stream order; the reversed  *)
(* variant returns the number whose numeral is the slice read backwards.   *)
(* The result depends on the text alone, so it is the same for a stream    *)
(* tagged big-endian and one tagged little-endian.  A reversed consume     *)
(* leaves the stream where the normal consume of the same n bits leaves    *)
(* it.  Slice 0100: 4 normal, 2 reversed.                                  *)
(***************************************************************************)
C12_ReversedRead ==
  /\ (LastIsRead /\ last.out.kind = "Ok") =>
       last.out.val = Numeral(Window(last.pre, last.n, last.r))
  /\ (last.op = "consume" /\ last.r /\ last.out.kind = "Ok") =>
       LET normal == consume_next_data_as(last.pre, delimiter, last.t, last.n, FALSE)
       IN  normal.out.kind = "Ok" => bits = normal.bits
  /\ Numeral(Window(Chars(<<0,1,0,0>>), 4, FALSE)) = 4
  /\ Numeral(Window(Chars(<<0,1,0,0>>), 4, TRUE)) = 2

\* a reversed consume of the slice 0100 of a little-endian stream returned 2
\* and advanced past the four bits
C12_Witness ==
  /\ last.op = "consume" /\ last.r /\ last.n = 4
  /\ endianness = "LittleEndian"
  /\ last.out = Ok(2)
  /\ SubSeq(Digits(last.pre), 1, 4) = Chars(<<0,1,0,0>>)
  /\ Remaining(bits) = Remaining(last.pre) - 4

(***************************************************************************)
(* C15  String-form peek.  For every n not above the number of remaining   *)
(* bits, whatever the width of any integer type, the string-form peek      *)
(* returns exactly n characters, each 0 or 1 and none the delimiter, equal *)
(* to the next n bits in stream order; the reversed one returns the same   *)
(* characters in reverse order.  Neither changes the stream.               *)
(***************************************************************************)
C15_StringPeek ==
  (last.op = "peek_string" /\ last.n <= Remaining(last.pre)) =>
    /\ last.out.kind = "Str"
    /\ Len(last.out.str) = last.n
    /\ \A i \in 1..Len(last.out.str) : last.out.str[i] \in {"0", "1"}
    /\ last.out.str = Window(last.pre, last.n, last.r)
    /\ bits = last.pre

\* a reversed string-form peek of 20 bits, across two delimiters, after a
\* consume
C15_Witness ==
  /\ last.op = "peek_string" /\ last.r /\ last.n = 20
  /\ cursor > 0
  /\ Len(last.pre) >= 22
  /\ CountDelim(SubSeq(last.pre, 1, 22), delimiter) = 2
  /\ last.out.kind = "Str" /\ Len(last.out.str) = 20
  /\ last.out.str # Window(last.pre, 20, FALSE)

(***************************************************************************)
(* C13  as_vec_bool ignores the cursor.  After any sequence of peeks and   *)
(* consumes, as_vec_bool returns the entire bit sequence the stream was    *)
(* constructed with: len(A) * W booleans, true where the bit is 1.         *)
(***************************************************************************)
C13_AsVecBoolIgnoresCursor ==
  last.op = "as_vec_bool" =>
    /\ last.out.kind = "Vec"
    /\ Len(last.out.vec) = Len(ctor.data) * Width(ctor.ty)
    /\ last.out.vec = [i \in 1..Len(OrigBits) |-> OrigBits[i] = "1"]

(***************************************************************************)
(* C17  The endianness tag is the one the constructor supplied, BigEndian  *)
(* for a *_big_endian constructor and LittleEndian for a *_little_endian   *)
(* one, in every reachable state: no call changes it.                      *)
(***************************************************************************)
C17_EndiannessAsSupplied ==
  /\ endianness = ctor.e
  /\ endianness \in {"BigEndian", "LittleEndian"}

\* a big-endian stream after a successful consume and a failed one
C17_Witness ==
  /\ ctor.e = "BigEndian" /\ endianness = "BigEndian"
  /\ cursor > 0
  /\ last.op = "consume" /\ last.out.kind = "Err"

(***************************************************************************)
(* C20  Rendering of a freshly constructed stream.  to_string is the       *)
(* elements' W-character texts in input order, joined by exactly one | be- *)
(* tween consecutive elements, with no leading or trailing delimiter.      *)
(* from_u8_big_endian of 0,1,2,3 renders as                                *)
(* 00000000|00000001|00000010|00000011.                                    *)
(***************************************************************************)
C20_FreshRendering ==
  /\ (last.op = "to_string" /\ cursor = 0) =>
       LET W    == Width(ctor.ty)
           L    == Len(ctor.data)
           text == last.out.str
       IN  /\ last.out.kind = "Str"
           /\ Len(text) = IF L = 0 THEN 0 ELSE L * W + (L - 1)
           /\ \A p \in 1..Len(text) : (text[p] = "|") <=> (p % (W + 1) = 0)
           /\ \A i \in 1..L :
                SubSeq(text, (i - 1) * (W + 1) + 1, (i - 1) * (W + 1) + W) =
                  IF ctor.e = "BigEndian" THEN Expansion(ctor.data[i], W)
                  ELSE LsbFirst(ctor.data[i], W)
  /\ to_string(from_big_endian("u8", <<0, 1, 2, 3>>).bits) =
       Chars(<<0,0,0,0,0,0,0,0>>) \o <<"|">> \o Chars(<<0,0,0,0,0,0,0,1>>) \o <<"|">>
         \o Chars(<<0,0,0,0,0,0,1,0>>) \o <<"|">> \o Chars(<<0,0,0,0,0,0,1,1>>)

\* to_string of the fresh stream of the u8 elements 4, 128, 4
C20_Witness ==
  /\ last.op = "to_string" /\ cursor = 0
  /\ ctor.ty = "u8" /\ ctor.e = "BigEndian" /\ ctor.data = <<4, 128, 4>>
  /\ Len(last.out.str) = 26
  /\ last.out.str[9] = "|" /\ last.out.str[10] = "1" /\ last.out.str[18] = "|"

(***************************************************************************)
(* C16  transform_as_vec_bool.  For every value v of an integer type of W  *)
(* bits, signed or unsigned, the result has exactly W booleans, is the     *)
(* expansion of v most significant bit first, padded on the left with      *)
(* false, and equals as_vec_bool of the stream the big-endian constructor  *)
(* builds from [v]; the call reads and changes no stream.                  *)
(***************************************************************************)
C16_TransformAsVecBool ==
  (last.op = "transform" /\ ctor.e = "BigEndian" /\ cursor = 0) =>
    LET v == ctor.data[1]
        W == Width(ctor.ty)
    IN  /\ last.out.kind = "Vec"
        /\ Len(last.out.vec) = W
        /\ last.out.vec = [i \in 1..W |-> Expansion(v, W)[i] = "1"]
        /\ last.out.vec = as_vec_bool(bits, delimiter)
        /\ bits = last.pre

\* the u8 value 5: five false, then true, false, true
C16_Witness ==
  /\ last.op = "transform" /\ ctor.ty = "u8" /\ ctor.data = <<5>>
  /\ last.out.vec = <<FALSE, FALSE, FALSE, FALSE, FALSE, TRUE, FALSE, TRUE>>

(***************************************************************************)
(* C14  Delimiters carry no weight.  Two streams holding the same bits in  *)
(* elements of different widths, given the same peeks and consumes, show   *)
(* the same outcome at every step (the same value, the same error or the   *)
(* same panic) and hold the same remaining bits.                           *)
(***************************************************************************)
C14_DelimitersWeightless ==
  /\ twin.out = last.out
  /\ Digits(twin.bits) = Digits(bits)

(***************************************************************************)
(* C18  Counter counts occurrences.  After any update_from_value and       *)
(* update_from_iter calls on a new Counter, or from_iter over the same     *)
(* items, counter[k] is the number of times k was supplied, for every key  *)
(* k: 0 for a key never supplied.  Looking up an absent key does not       *)
(* insert it: no lookup changes len.                                       *)
(***************************************************************************)
\* the number of times k occurs in the sequence of items
Occurrences(items, k) == Cardinality({i \in 1..Len(items) : items[i] = k})

C18_CounterCountsOccurrences ==
  /\ \A k \in Keys : index(state, k) = Occurrences(supplied, k)
  /\ clast.op = "index" =>
       /\ clast.res = Occurrences(supplied, clast.key)
       /\ state = clast.pre
       /\ len(state) = len(clast.pre)

\* the lookup of a key never supplied, on a counter that was given another
\* key twice and a third key once
C18_Witness ==
  /\ clast.op = "index"
  /\ Occurrences(supplied, clast.key) = 0 /\ clast.res = 0
  /\ \E k \in Keys : Occurrences(supplied, k) = 2 /\ index(state, k) = 2
  /\ len(state) = 2

(***************************************************************************)
(* C19  Counter::len is the number of distinct keys supplied so far: 0 for *)
(* a new Counter, one more after update_from_value with a key not seen     *)
(* before, and the same after update_from_value with a key already         *)
(* present, where that key's count grows by 1; the count of every other    *)
(* key is unchanged.                                                       *)
(***************************************************************************)
C19_LenCountsDistinctKeys ==
  /\ len(state) = Cardinality({supplied[i] : i \in 1..Len(supplied)})
  /\ clast.op = "len" => clast.res = Cardinality({supplied[i] : i \in 1..Len(supplied)})
  /\ clast.op = "new" => len(state) = 0
  /\ clast.op = "update_from_value" =>
       /\ IF clast.key \in DOMAIN clast.pre
          THEN /\ len(state) = len(clast.pre)
               /\ state[clast.key] = clast.pre[clast.key] + 1
          ELSE /\ len(state) = len(clast.pre) + 1
               /\ state[clast.key] = 1
       /\ \A k \in DOMAIN clast.pre \ {clast.key} :
            k \in DOMAIN state /\ state[k] = clast.pre[k]

\* update_from_value with a key already present, beside another key
C19_Witness ==
  /\ clast.op = "update_from_value"
  /\ clast.key \in DOMAIN clast.pre
  /\ len(clast.pre) = 2 /\ len(state) = 2
  /\ state[clast.key] = 3

(***************************************************************************)
(* C21  As the doc example of from_u8_little_endian asserts for the Vec    *)
(* input: the stream built by from_u8_little_endian from 0,1,2,3 renders   *)
(* as 00000000|00000001|00000010|00000011.                                 *)
(***************************************************************************)
\* to_string() was called on from_u8_little_endian(&[0, 1, 2, 3])
DocLittleEndianRendered ==
  /\ last.op = "to_string"
  /\ ctor = [ty |-> "u8", e |-> "LittleEndian", data |-> <<0, 1, 2, 3>>]
  /\ cursor = 0

C21_DocVecRendering ==
  DocLittleEndianRendered =>
    last.out.str =
      Chars(<<0,0,0,0,0,0,0,0>>) \o <<"|">> \o Chars(<<0,0,0,0,0,0,0,1>>) \o <<"|">>
        \o Chars(<<0,0,0,0,0,0,1,0>>) \o <<"|">> \o Chars(<<0,0,0,0,0,0,1,1>>)

(***************************************************************************)
(* C22  The fixed-width forms equal the generic read.  For every width W   *)
(* in 8, 16, 32, 64, 128, either signedness, both orders, peek and         *)
(* consume: the fixed-width operation gives, in any state, the outcome and *)
(* the resulting stream of the variable-length operation of the target     *)
(* type of that signedness and width, called with size_to_read = W.        *)
(***************************************************************************)
\* the integer type of a signedness and a width (not the pointer-sized ones)
TargetType(signword, w) ==
  CHOOSE t \in IntTypes \ {"usize", "isize"} :
    Width(t) = w /\ (Signed(t) <=> signword = "signed")

C22_FixedEqualsGeneric ==
  /\ last.op = "peek_fixed" =>
       /\ last.out = peek_next_data_as(last.pre, delimiter,
                                       TargetType(last.t, last.n), last.n, last.r)
       /\ bits = last.pre
  /\ last.op = "consume_fixed" =>
       LET generic == consume_next_data_as(last.pre, delimiter,
                                           TargetType(last.t, last.n), last.n, last.r)
       IN  /\ last.out = generic.out
           /\ bits = generic.bits

\* consume_next_signed_16_bits_reversed() returned a value and moved the
\* stream
C22_Witness ==
  /\ last.op = "consume_fixed" /\ last.t = "signed" /\ last.n = 16 /\ last.r
  /\ last.out.kind = "Ok" /\ last.out.val > 255
  /\ bits # last.pre

(***************************************************************************)
(* C23  Error results arise only from signed overflow.  With enough bits   *)
(* remaining, a peek or consume into an unsigned target of width W with    *)
(* 1 <= size_to_read <= W returns a value, never an error; into a signed   *)
(* target, every read with 1 <= size_to_read <= W - 1 returns a value, and *)
(* an error occurs only when size_to_read = W and the first bit of the     *)
(* slice, in the order read, is 1.                                         *)
(***************************************************************************)
C23_ErrorsOnlyFromSignedOverflow ==
  (LastIsRead /\ 1 <= last.n /\ last.n <= Remaining(last.pre)) =>
    /\ (~Signed(last.t) /\ last.n <= Width(last.t)) => last.out.kind = "Ok"
    /\ (Signed(last.t) /\ last.n <= Width(last.t) - 1) => last.out.kind = "Ok"
    /\ (last.n <= Width(last.t) /\ last.out.kind = "Err") =>
         /\ Signed(last.t)
         /\ last.n = Width(last.t)
         /\ Window(last.pre, last.n, last.r)[1] = "1"

(***************************************************************************)
(* C24  Counter iteration is ordered and exact.  After any updates, iter() *)
(* and into_iter() yield each distinct key supplied exactly once, in       *)
(* strictly ascending key order whatever the order of insertion, each with *)
(* a count of at least 1, and the counts add up to the number of items     *)
(* supplied.                                                               *)
(***************************************************************************)
RECURSIVE SumCounts(_)
SumCounts(pairs) ==
  IF pairs = <<>> THEN 0 ELSE Head(pairs)[2] + SumCounts(Tail(pairs))

C24_IterationOrderedExact ==
  clast.op \in {"iter", "into_iter"} =>
    LET p == clast.pairs IN
    /\ {p[i][1] : i \in 1..Len(p)} = {supplied[i] : i \in 1..Len(supplied)}
    /\ \A i \in 1..(Len(p) - 1) : p[i][1] < p[i + 1][1]
    /\ \A i \in 1..Len(p) : p[i][2] >= 1 /\ p[i][2] = Occurrences(supplied, p[i][1])
    /\ SumCounts(p) = Len(supplied)

\* iter() after the keys were supplied in descending order, one of them twice
C24_Witness ==
  /\ clast.op = "iter"
  /\ Len(supplied) >= 3
  /\ supplied[1] > supplied[2]
  /\ Len(clast.pairs) = 2 /\ clast.pairs[2][2] = 2

(***************************************************************************)
(* C25  Bulk and single updates agree.  update_from_iter over x1..xn       *)
(* leaves the Counter as update_from_value(x1), ..., update_from_value(xn) *)
(* in turn leave it, from any Counter state; from_iter(items) is new()     *)
(* followed by update_from_iter(items).                                    *)
(***************************************************************************)
\* update_from_value called with each item in turn
RECURSIVE OneByOne(_, _)
OneByOne(s, items) ==
  IF items = <<>> THEN s ELSE OneByOne(update_from_value(s, Head(items)), Tail(items))

C25_BulkEqualsSingle ==
  /\ clast.op = "update_from_iter" => state = OneByOne(clast.pre, clast.items)
  /\ clast.op = "from_iter" => state = OneByOne(Counter_new, clast.items)
  /\ (clast.op = "update_from_iter" /\ clast.pre = Counter_new) =>
       state = from_iter(clast.items)

\* update_from_iter with a key already present and a new one, on a Counter
\* that is not empty
C25_Witness ==
  /\ clast.op = "update_from_iter"
  /\ Len(clast.items) = 2
  /\ clast.items[1] \in DOMAIN clast.pre
  /\ clast.items[2] \notin DOMAIN clast.pre
  /\ len(state) = len(clast.pre) + 1

(***************************************************************************)
(* C27  Counter equality depends only on the counted multiset.  Two        *)
(* Counters are equal exactly when they hold the same keys with the same   *)
(* counts: Counters built from two orderings of the same items are equal,  *)
(* equality is reflexive and symmetric, and Counters that differ in one    *)
(* key's count or presence are unequal.                                    *)
(***************************************************************************)
C27_EqualityOfMultisets ==
  /\ eq(state, state)
  /\ clast.op = "eq" =>
       /\ clast.same <=>
            \A k \in Keys : Occurrences(supplied, k) = Occurrences(clast.items, k)
       /\ eq(from_iter(clast.items), state) = clast.same

\* a Counter compared equal to one built from its two items in the other
\* order
C27_Witness ==
  /\ clast.op = "eq" /\ clast.same
  /\ Len(supplied) = 2 /\ supplied[1] # supplied[2]
  /\ clast.items = <<supplied[2], supplied[1]>>

(***************************************************************************)
(* C26  Little-endian construction and reversed reading cancel.  For every *)
(* unsigned element v of width W: on the little-endian stream of [v] the   *)
(* reversed unsigned peek of W bits returns v and the normal one returns   *)
(* the W-bit bit-reversal of v; on the big-endian stream of [v] the normal *)
(* peek returns v and the reversed one the bit-reversal of v.              *)
(***************************************************************************)
\* the number whose w-bit expansion is that of v read backwards
RECURSIVE Mirror(_, _)
Mirror(v, w) ==
  IF w = 0 THEN 0 ELSE (v % 2) * (2 ^ (w - 1)) + Mirror(v \div 2, w - 1)

C26_LittleEndianReversedCancel ==
  (/\ last.op = "peek" /\ cursor = 0
   /\ Len(ctor.data) = 1 /\ ~Signed(ctor.ty)
   /\ last.t = ctor.ty /\ last.n = Width(ctor.ty)) =>
    LET v == ctor.data[1]
        W == Width(ctor.ty)
    IN  last.out = IF (ctor.e = "LittleEndian") <=> last.r
                   THEN Ok(v) ELSE Ok(Mirror(v, W))

\* the normal peek of the little-endian stream of the u8 element 6 returns 96
C26_Witness ==
  /\ last.op = "peek" /\ ~last.r /\ last.n = 8
  /\ ctor = [ty |-> "u8", e |-> "LittleEndian", data |-> <<6>>]
  /\ last.out = Ok(96)

(***************************************************************************)
(* C28  The stored text stays a well-formed delimited rendering.  After    *)
(* any sequence of consumes, to_string holds only the characters 0, 1 and  *)
(* |, never two adjacent delimiters, never a leading and never a trailing  *)
(* delimiter, and without its delimiters it is exactly the unconsumed      *)
(* bits.                                                                   *)
(***************************************************************************)
C28_TextWellFormed ==
  last.op = "to_string" =>
    LET text == last.out.str IN
    /\ \A i \in 1..Len(text) : text[i] \in {"0", "1", "|"}
    /\ \A i \in 1..(Len(text) - 1) : ~(text[i] = "|" /\ text[i + 1] = "|")
    /\ Len(text) > 0 => (text[1] # "|" /\ text[Len(text)] # "|")
    /\ cursor <= Len(OrigBits)
    /\ Digits(text) = SubSeq(OrigBits, cursor + 1, Len(OrigBits))

(***************************************************************************)
(* C29  A read of zero bits yields no value and changes nothing.  For      *)
(* every numeric target, peek and consume with size_to_read = 0 return an  *)
(* error result, never a value such as 0, and leave the stored text and    *)
(* the remaining bits as they were, in every reachable state.              *)
(***************************************************************************)
C29_ZeroBitRead ==
  (LastIsRead /\ last.n = 0) =>
    /\ last.out.kind = "Err"
    /\ last.out.err = "Empty"
    /\ bits = last.pre
    /\ Remaining(bits) = Remaining(last.pre)

\* a reversed consume of zero bits into i8, after a consume, with bits left
C29_Witness ==
  /\ last.op = "consume" /\ last.n = 0 /\ last.r /\ last.t = "i8"
  /\ cursor > 0 /\ Remaining(bits) > 0
  /\ last.out = Err("Empty")

====
